---------------------------- MODULE Spec2Model ----------------------------
(***************************************************************************)
(* A model of ingrain_rs: the IngrainClient facade (src/src/lib.rs), the   *)
(* retry executor (src/src/retry.rs) and the decoding of response records  *)
(* (src/src/models.rs).                                                    *)
(*                                                                         *)
(* Every call is an async task.  A task is suspended at its .await points  *)
(* (send + body read, sleep); one action of the model is the code a task   *)
(* runs between two suspensions.                                           *)
(***************************************************************************)
EXTENDS Integers, Sequences, FiniteSets, TLC

VARIABLES client, overflow_checks, calls, codec

vars == <<client, overflow_checks, calls, codec>>

-----------------------------------------------------------------------------
(* Bounds of the model *)

\* largest ordinary retry count given to new_with_retries
MaxRetries == 2
MaxDeviations == 2

(* Program constants *)

\* retries: u16
U16Max == 65535
\* StatusCode::is_success: 200..=299
SuccessLo == 200
SuccessHi == 299

\* the tasks that share one client; SoloCallers are the ones Spec runs
Callers == {"t1", "t2"}
SoloCallers == {"t1"}

RetryValues == (0..MaxRetries) \cup {U16Max}
\* scripts of the endpoint: the request it first answers well (0: none)
Scripts == 0..(MaxRetries + 1)
DelayValues == {0, 10}

ModelUrls == {"http://localhost:8687"}
InferenceUrls == {"http://localhost:8686"}

-----------------------------------------------------------------------------
(* The remote endpoint: what one send-and-read can produce *)

Statuses == {200, 404, 500}

NoStatus == 0
NoBody == "<no body>"

\* literal response body texts
BodyMsgOk == "{\"message\": \"ok\"}"
BodyMsgErr == "{\"message\": \"Internal Server Error\"}"
BodyText == "Internal Error"
BodyEmbed == "{\"textEmbeddings\": [[0.1, 0.2]], \"imageEmbeddings\": null, \"processingTimeMs\": 7.2}"
BodyEmbeddings == "{\"embeddings\": [[0.1, 0.2]], \"processingTimeMs\": 7.2}"
BodyProbs == "{\"probabilities\": [[0.9, 0.1]], \"processingTimeMs\": 7.2}"
BodyLabels == "{\"labels\": [\"cat\"]}"
BodyDims == "{\"embeddingSize\": 384, \"extra\": true}"
BodyModels == "{\"models\": []}"
BodyMetrics == "{\"modelStats\": []}"
BodyDimsBad == "{\"embeddingSize\": \"384\"}"

Bodies ==
    {BodyMsgOk, BodyMsgErr, BodyText, BodyEmbed, BodyEmbeddings, BodyProbs,
     BodyLabels, BodyDims, BodyModels, BodyMetrics, BodyDimsBad}

\* outcome of one request: the send fails, or a response arrives with a
\* status and then its body is read (and that read may fail)
Outcomes ==
    {[kind |-> "SendErr", status |-> NoStatus, body |-> NoBody]}
    \cup [kind : {"BodyErr"}, status : Statuses, body : {NoBody}]
    \cup [kind : {"Resp"}, status : Statuses, body : Bodies]

NoOutcome == [kind |-> "None", status |-> NoStatus, body |-> NoBody]

IsSuccess(status) == status >= SuccessLo /\ status <= SuccessHi

-----------------------------------------------------------------------------
(* JSON text -> JSON object, on the sample bodies *)

F(name, ty, v) == [name |-> name, ty |-> ty, v |-> v]

\* serde_json's reading of a body text: wf = syntactically a JSON object,
\* fields = its members (name, JSON type, value token)
ParseJson(body) ==
    CASE body = BodyMsgOk -> [wf |-> TRUE, fields |-> {F("message", "string", "ok")}]
      [] body = BodyMsgErr ->
            [wf |-> TRUE, fields |-> {F("message", "string", "Internal Server Error")}]
      [] body = BodyEmbed ->
            [wf |-> TRUE,
             fields |-> {F("textEmbeddings", "array", "[[0.1, 0.2]]"),
                         F("imageEmbeddings", "null", "null"),
                         F("processingTimeMs", "number", "7.2")}]
      [] body = BodyEmbeddings ->
            [wf |-> TRUE,
             fields |-> {F("embeddings", "array", "[[0.1, 0.2]]"),
                         F("processingTimeMs", "number", "7.2")}]
      [] body = BodyProbs ->
            [wf |-> TRUE,
             fields |-> {F("probabilities", "array", "[[0.9, 0.1]]"),
                         F("processingTimeMs", "number", "7.2")}]
      [] body = BodyLabels -> [wf |-> TRUE, fields |-> {F("labels", "array", "[cat]")}]
      [] body = BodyDims ->
            [wf |-> TRUE,
             fields |-> {F("embeddingSize", "number", "384"), F("extra", "bool", "true")}]
      [] body = BodyDimsBad ->
            [wf |-> TRUE, fields |-> {F("embeddingSize", "string", "384")}]
      [] body = BodyModels -> [wf |-> TRUE, fields |-> {F("models", "array", "[]")}]
      [] body = BodyMetrics -> [wf |-> TRUE, fields |-> {F("modelStats", "array", "[]")}]
      [] OTHER -> [wf |-> FALSE, fields |-> {}]

-----------------------------------------------------------------------------
(* Response records of models.rs: field, wire name, JSON type, required *)

S(field, wire, ty, req) == [field |-> field, wire |-> wire, ty |-> ty, req |-> req]

GenericMessageResponse == {S("message", "message", "string", TRUE)}

LoadedModelResponse == {S("models", "models", "array", TRUE)}

RepositoryModelResponse == {S("models", "models", "array", TRUE)}

MetricsResponse == {S("model_stats", "modelStats", "array", TRUE)}

TextEmbeddingResponse ==
    {S("embeddings", "embeddings", "array", TRUE),
     S("processing_time_ms", "processingTimeMs", "number", TRUE)}

ImageEmbeddingResponse ==
    {S("embeddings", "embeddings", "array", TRUE),
     S("processing_time_ms", "processingTimeMs", "number", TRUE)}

ImageClassificationResponse ==
    {S("probabilities", "probabilities", "array", TRUE),
     S("processing_time_ms", "processingTimeMs", "number", TRUE)}

EmbeddingResponse ==
    {S("text_embeddings", "textEmbeddings", "array", FALSE),
     S("image_embeddings", "imageEmbeddings", "array", FALSE),
     S("processing_time_ms", "processingTimeMs", "number", TRUE)}

ModelClassificationLabelsResponse == {S("labels", "labels", "array", TRUE)}

ModelEmbeddingDimsResponse == {S("embedding_size", "embeddingSize", "number", TRUE)}

\* a decoded record: one entry per field of the record type
V(field, ty, v) == [field |-> field, ty |-> ty, v |-> v]

NoValue == {}

\* the members of a JSON object named `wire`
Member(obj, wire) == {m \in obj.fields : m.name = wire}

\* a variant in which every field has a default (#[serde(default)])
FieldFitsOrDefault(obj, s) ==
    LET ms == Member(obj, s.wire) IN
    IF ms = {} THEN TRUE
    ELSE \A m \in ms : m.ty = s.ty \/ (~s.req /\ m.ty = "null")

\* a member fits a field: right type, or null/absent for an Option field
FieldFits(obj, s) ==
    LET ms == Member(obj, s.wire) IN
    IF ms = {} THEN ~s.req
    ELSE \A m \in ms : m.ty = s.ty \/ (~s.req /\ m.ty = "null")

FieldValue(obj, s) ==
    LET ms == Member(obj, s.wire) IN
    IF ms = {} THEN V(s.field, "null", "null")
    ELSE LET m == CHOOSE m \in ms : TRUE IN V(s.field, m.ty, m.v)

\* a variant that rejects members the record does not have
\* (#[serde(deny_unknown_fields)])
DeserializeDenyUnknown(schema, obj) ==
    IF /\ obj.wf
       /\ \A s \in schema : FieldFits(obj, s)
       /\ \A m \in obj.fields : \E s \in schema : s.wire = m.name
    THEN [ok |-> TRUE, val |-> {FieldValue(obj, s) : s \in schema}]
    ELSE [ok |-> FALSE, val |-> NoValue]

\* the derived Deserialize of a record type, on a JSON object
Deserialize(schema, obj) ==
    IF obj.wf /\ \A s \in schema : FieldFits(obj, s)
    THEN [ok |-> TRUE, val |-> {FieldValue(obj, s) : s \in schema}]
    ELSE [ok |-> FALSE, val |-> NoValue]

\* serde_json::from_str::<T>(&body)
FromStr(schema, body) == Deserialize(schema, ParseJson(body))

-----------------------------------------------------------------------------
(* The other records of models.rs: requests and the records nested in      *)
(* responses                                                                *)

EmbeddingRequest ==
    {S("name", "name", "string", TRUE),
     S("text", "text", "array", FALSE),
     S("image", "image", "array", FALSE),
     S("normalize", "normalize", "bool", FALSE),
     S("n_dims", "nDims", "number", FALSE),
     S("image_download_headers", "imageDownloadHeaders", "object", FALSE)}

TextEmbeddingRequest ==
    {S("name", "name", "string", TRUE),
     S("text", "text", "array", TRUE),
     S("normalize", "normalize", "bool", FALSE),
     S("n_dims", "nDims", "number", FALSE)}

ImageEmbeddingRequest ==
    {S("name", "name", "string", TRUE),
     S("image", "image", "array", TRUE),
     S("normalize", "normalize", "bool", FALSE),
     S("n_dims", "nDims", "number", FALSE),
     S("image_download_headers", "imageDownloadHeaders", "object", FALSE)}

ImageClassificationRequest ==
    {S("name", "name", "string", TRUE),
     S("image", "image", "array", TRUE),
     S("image_download_headers", "imageDownloadHeaders", "object", FALSE)}

\* library is a ModelLibrary, a string on the wire
LoadModelRequest ==
    {S("name", "name", "string", TRUE), S("library", "library", "string", TRUE)}

UnloadModelRequest == {S("name", "name", "string", TRUE)}

ModelMetadataRequest == {S("name", "name", "string", TRUE)}

LoadedModel ==
    {S("name", "name", "string", TRUE), S("library", "library", "string", TRUE)}

RepositoryModel ==
    {S("name", "name", "string", TRUE), S("state", "state", "string", TRUE)}

InferenceStats ==
    {S("count", "count", "string", FALSE), S("ns", "ns", "string", FALSE)}

BatchStats ==
    {S("batch_size", "batchSize", "string", TRUE),
     S("compute_input", "computeInput", "object", TRUE),
     S("compute_infer", "computeInfer", "object", TRUE),
     S("compute_output", "computeOutput", "object", TRUE)}

ModelStats ==
    {S("name", "name", "string", TRUE),
     S("version", "version", "string", TRUE),
     S("inference_stats", "inferenceStats", "object", TRUE),
     S("last_inference", "lastInference", "string", FALSE),
     S("inference_count", "inferenceCount", "string", FALSE),
     S("execution_count", "executionCount", "string", FALSE),
     S("batch_stats", "batchStats", "array", FALSE)}

RequestRecords ==
    {"EmbeddingRequest", "TextEmbeddingRequest", "ImageEmbeddingRequest",
     "ImageClassificationRequest", "LoadModelRequest", "UnloadModelRequest",
     "ModelMetadataRequest"}

ResponseRecords ==
    {"GenericMessageResponse", "LoadedModel", "LoadedModelResponse", "RepositoryModel",
     "RepositoryModelResponse", "InferenceStats", "BatchStats", "ModelStats",
     "MetricsResponse", "TextEmbeddingResponse", "ImageEmbeddingResponse",
     "ImageClassificationResponse", "EmbeddingResponse",
     "ModelClassificationLabelsResponse", "ModelEmbeddingDimsResponse"}

Records == RequestRecords \cup ResponseRecords

\* the fields of the record type named ty
Schema(ty) ==
    CASE ty = "EmbeddingRequest" -> EmbeddingRequest
      [] ty = "TextEmbeddingRequest" -> TextEmbeddingRequest
      [] ty = "ImageEmbeddingRequest" -> ImageEmbeddingRequest
      [] ty = "ImageClassificationRequest" -> ImageClassificationRequest
      [] ty = "LoadModelRequest" -> LoadModelRequest
      [] ty = "UnloadModelRequest" -> UnloadModelRequest
      [] ty = "ModelMetadataRequest" -> ModelMetadataRequest
      [] ty = "GenericMessageResponse" -> GenericMessageResponse
      [] ty = "LoadedModel" -> LoadedModel
      [] ty = "LoadedModelResponse" -> LoadedModelResponse
      [] ty = "RepositoryModel" -> RepositoryModel
      [] ty = "RepositoryModelResponse" -> RepositoryModelResponse
      [] ty = "InferenceStats" -> InferenceStats
      [] ty = "BatchStats" -> BatchStats
      [] ty = "ModelStats" -> ModelStats
      [] ty = "MetricsResponse" -> MetricsResponse
      [] ty = "TextEmbeddingResponse" -> TextEmbeddingResponse
      [] ty = "ImageEmbeddingResponse" -> ImageEmbeddingResponse
      [] ty = "ImageClassificationResponse" -> ImageClassificationResponse
      [] ty = "EmbeddingResponse" -> EmbeddingResponse
      [] ty = "ModelClassificationLabelsResponse" -> ModelClassificationLabelsResponse
      [] ty = "ModelEmbeddingDimsResponse" -> ModelEmbeddingDimsResponse

-----------------------------------------------------------------------------
(* Values of the record types and their JSON form *)

\* the fields of type f32
F32Fields == {"processing_time_ms"}

\* f32 values that are no numbers of JSON
NonFinite == {"inf", "NaN"}

\* a sample value of each JSON type
Sample(ty) ==
    CASE ty = "string" -> "abc"
      [] ty = "number" -> "7"
      [] ty = "bool" -> "true"
      [] ty = "array" -> "[..]"
      [] ty = "object" -> "{..}"

\* what a field of a value can hold: a value, None for an Option, and for an
\* f32 also an infinity or a NaN
ValueChoices(s) ==
    {"some"} \cup (IF s.req THEN {} ELSE {"none"})
             \cup (IF s.field \in F32Fields THEN NonFinite ELSE {})

FieldOfValue(s, choice) ==
    CASE choice = "none" -> V(s.field, "null", "null")
      [] choice = "some" -> V(s.field, s.ty, Sample(s.ty))
      [] OTHER -> V(s.field, s.ty, choice)

\* the values of a record type, on the samples
Values(schema) ==
    {{FieldOfValue(s, g[s]) : s \in schema} :
        g \in {h \in [schema -> {"some", "none"} \cup NonFinite] :
                 \A s \in schema : h[s] \in ValueChoices(s)}}

\* serde_json writes None as null, and an f32 that is not finite as null too
ToJson(v) ==
    IF v.ty = "null" \/ v.v \in NonFinite THEN [ty |-> "null", v |-> "null"]
    ELSE [ty |-> v.ty, v |-> v.v]

\* the derived Serialize of a record type: one member per field, under the
\* field's wire name
Serialize(schema, value) ==
    [wf |-> TRUE,
     fields |-> {LET v == CHOOSE w \in value : w.field = s.field
                 IN  F(s.wire, ToJson(v).ty, ToJson(v).v) : s \in schema}]

NoObject == [wf |-> FALSE, fields |-> {}]

\* inbound JSON objects for a record type: each field's member is absent,
\* right, of another type, null, or under the field's Rust name, with at
\* most MaxDeviations members not right; and there may be a member the
\* record does not have
PayloadChoices == {"absent", "right", "wrong", "null", "rust_name"}

WrongTy(ty) == IF ty = "string" THEN "number" ELSE "string"

MemberOf(s, choice) ==
    CASE choice = "right" -> F(s.wire, s.ty, Sample(s.ty))
      [] choice = "wrong" -> F(s.wire, WrongTy(s.ty), Sample(WrongTy(s.ty)))
      [] choice = "null" -> F(s.wire, "null", "null")
      [] choice = "rust_name" -> F(s.field, s.ty, Sample(s.ty))

ExtraMember == F("extra", "bool", "true")

Payloads(schema) ==
    {[wf |-> TRUE,
      fields |-> {MemberOf(s, g[s]) : s \in {t \in schema : g[t] # "absent"}} \cup extra] :
        g \in {h \in [schema -> PayloadChoices] :
                 Cardinality({s \in schema : h[s] # "right"}) <= MaxDeviations},
        extra \in {{}, {ExtraMember}}}

-----------------------------------------------------------------------------
(* enum ModelLibrary, #[serde(rename_all = "snake_case")]; names are       *)
(* sequences of characters                                                  *)

OpenClip == <<"O", "p", "e", "n", "C", "l", "i", "p">>

SentenceTransformers ==
    <<"S", "e", "n", "t", "e", "n", "c", "e",
      "T", "r", "a", "n", "s", "f", "o", "r", "m", "e", "r", "s">>

Timm == <<"T", "i", "m", "m">>

ModelLibrary == {OpenClip, SentenceTransformers, Timm}

UpperCase ==
    <<"A", "B", "C", "D", "E", "F", "G", "H", "I", "J", "K", "L", "M",
      "N", "O", "P", "Q", "R", "S", "T", "U", "V", "W", "X", "Y", "Z">>

LowerCase ==
    <<"a", "b", "c", "d", "e", "f", "g", "h", "i", "j", "k", "l", "m",
      "n", "o", "p", "q", "r", "s", "t", "u", "v", "w", "x", "y", "z">>

IsUppercase(ch) == \E i \in DOMAIN UpperCase : UpperCase[i] = ch

ToAsciiLowercase(ch) ==
    IF IsUppercase(ch)
    THEN LowerCase[CHOOSE i \in DOMAIN UpperCase : UpperCase[i] = ch]
    ELSE ch

\* from position i on: an underscore before every capital but the first
\* character, every character in lower case
RECURSIVE SnakeFrom(_, _)
SnakeFrom(name, i) ==
    IF i > Len(name) THEN <<>>
    ELSE (IF i > 1 /\ IsUppercase(name[i]) THEN <<"_">> ELSE <<>>)
         \o <<ToAsciiLowercase(name[i])>> \o SnakeFrom(name, i + 1)

\* a variant that only lowers the case (rename_all = "lowercase")
RenameLowerCase(name) == [i \in DOMAIN name |-> ToAsciiLowercase(name[i])]

\* the wire name of a variant under rename_all = "snake_case"
RenameSnakeCase(name) == SnakeFrom(name, 1)

NoName == <<>>

\* the derived Deserialize of ModelLibrary: the variant with this wire name
DeserializeVariant(token) ==
    IF \E v \in ModelLibrary : RenameSnakeCase(v) = token
    THEN [ok |-> TRUE, variant |-> CHOOSE v \in ModelLibrary : RenameSnakeCase(v) = token]
    ELSE [ok |-> FALSE, variant |-> NoName]

\* wire names a server may send for a library
InboundTokens ==
    {RenameSnakeCase(v) : v \in ModelLibrary} \cup {OpenClip, <<"c", "l", "i", "p">>}

-----------------------------------------------------------------------------
(* The codec at work: a value is encoded and its wire form decoded, or an  *)
(* inbound wire form is decoded                                             *)

NoCodec ==
    [pc |-> "off", from |-> "-", ty |-> "-", value |-> NoValue, wire |-> NoObject,
     back |-> [ok |-> FALSE, val |-> NoValue],
     variant |-> NoName, token |-> NoName,
     variant_back |-> [ok |-> FALSE, variant |-> NoName]]


-----------------------------------------------------------------------------
(* Errors: what the message of a Box<dyn Error> contains *)

E(kind, status, body) == [kind |-> kind, status |-> status, body |-> body]

NoErr == E("None", NoStatus, NoBody)

\* reqwest::Error propagated by `?` from send() or text()
TransportErr == E("Transport", NoStatus, NoBody)
\* serde_json::Error propagated by `?`
SerdeErr == E("Serde", NoStatus, NoBody)
\* "Request failed with status: {}"
StatusErr(status) == E("Status", status, NoBody)
\* "Request failed with status: {} and body: {}"
StatusBodyErr(status, body) == E("StatusBody", status, body)
\* "Failed to clone request"
CloneErr == E("Clone", NoStatus, NoBody)
\* "Failed to parse response: {} (body: {})"
ParseErr(body) == E("Parse", NoStatus, body)
\* "Request failed with status: {} (body: {})"
RetryStatusErr(status, body) == E("RetryStatus", status, body)
\* "Network error: {}"
NetworkErr == E("Network", NoStatus, NoBody)
\* "Unknown error"
UnknownErr == E("Unknown", NoStatus, NoBody)

Ok(val) == [tag |-> "Ok", val |-> val, err |-> NoErr]
Err(err) == [tag |-> "Err", val |-> NoValue, err |-> err]
NoResult == [tag |-> "None", val |-> NoValue, err |-> NoErr]

-----------------------------------------------------------------------------
(* The facade's operations *)

DirectOps ==
    {"model_server_health", "inference_server_health", "loaded_models",
     "repository_models", "metrics", "load_model", "unload_model", "delete_model"}

RetriedOps ==
    {"embed_text", "embed_image", "embed", "classify_image",
     "model_classification_labels", "model_embedding_size"}

Ops == DirectOps \cup RetriedOps

\* Option<Vec<String>> arguments of embed
OptVals == {"None", "SomeEmpty", "Some"}

\* the response record type of each operation
ResponseType(op) ==
    CASE op \in {"model_server_health", "inference_server_health", "load_model",
                 "unload_model", "delete_model", "retry"} -> GenericMessageResponse
      [] op = "loaded_models" -> LoadedModelResponse
      [] op = "repository_models" -> RepositoryModelResponse
      [] op = "metrics" -> MetricsResponse
      [] op = "embed_text" -> TextEmbeddingResponse
      [] op = "embed_image" -> ImageEmbeddingResponse
      [] op = "embed" -> EmbeddingResponse
      [] op = "classify_image" -> ImageClassificationResponse
      [] op = "model_classification_labels" -> ModelClassificationLabelsResponse
      [] op = "model_embedding_size" -> ModelEmbeddingDimsResponse

Req(method, base, path, carrier) ==
    [method |-> method, base |-> base, path |-> path, carrier |-> carrier,
     clonable |-> TRUE]

NoReq ==
    [method |-> "-", base |-> "-", path |-> "-", carrier |-> "-", clonable |-> TRUE]

\* a variant in which the two metadata lookups go to the inference server as
\* POST with a JSON body, like the compute operations
BuildRequestLookupsPosted(cl, op) ==
    CASE op = "model_server_health" -> Req("GET", cl.model_server_url, "/health", "none")
      [] op = "inference_server_health" ->
            Req("GET", cl.inference_server_url, "/health", "none")
      [] op = "loaded_models" -> Req("GET", cl.model_server_url, "/loaded_models", "none")
      [] op = "repository_models" ->
            Req("GET", cl.model_server_url, "/repository_models", "none")
      [] op = "metrics" -> Req("GET", cl.inference_server_url, "/metrics", "none")
      [] op = "load_model" -> Req("POST", cl.model_server_url, "/load_model", "json")
      [] op = "unload_model" -> Req("POST", cl.model_server_url, "/unload_model", "json")
      [] op = "delete_model" -> Req("POST", cl.model_server_url, "/delete_model", "json")
      [] op = "embed_text" -> Req("POST", cl.inference_server_url, "/embed_text", "json")
      [] op = "embed_image" -> Req("POST", cl.inference_server_url, "/embed_image", "json")
      [] op = "embed" -> Req("POST", cl.inference_server_url, "/embed", "json")
      [] op = "classify_image" ->
            Req("POST", cl.inference_server_url, "/classify_image", "json")
      [] op = "model_classification_labels" ->
            Req("POST", cl.inference_server_url, "/model_classification_labels", "json")
      [] op = "model_embedding_size" ->
            Req("POST", cl.inference_server_url, "/model_embedding_size", "json")

\* the request each operation builds: format!("{}/path", base), get/post,
\* .json(&payload) / .query(&payload)
BuildRequest(cl, op) ==
    CASE op = "model_server_health" -> Req("GET", cl.model_server_url, "/health", "none")
      [] op = "inference_server_health" ->
            Req("GET", cl.inference_server_url, "/health", "none")
      [] op = "loaded_models" -> Req("GET", cl.model_server_url, "/loaded_models", "none")
      [] op = "repository_models" ->
            Req("GET", cl.model_server_url, "/repository_models", "none")
      [] op = "metrics" -> Req("GET", cl.inference_server_url, "/metrics", "none")
      [] op = "load_model" -> Req("POST", cl.model_server_url, "/load_model", "json")
      [] op = "unload_model" -> Req("POST", cl.model_server_url, "/unload_model", "json")
      [] op = "delete_model" -> Req("POST", cl.model_server_url, "/delete_model", "json")
      [] op = "embed_text" -> Req("POST", cl.inference_server_url, "/embed_text", "json")
      [] op = "embed_image" -> Req("POST", cl.inference_server_url, "/embed_image", "json")
      [] op = "embed" -> Req("POST", cl.inference_server_url, "/embed", "json")
      [] op = "classify_image" ->
            Req("POST", cl.inference_server_url, "/classify_image", "json")
      [] op = "model_classification_labels" ->
            Req("GET", cl.model_server_url, "/model_classification_labels", "query")
      [] op = "model_embedding_size" ->
            Req("GET", cl.model_server_url, "/model_embedding_size", "query")

\* the state of one task.  first_ok is the endpoint's script for the call, as
\* a mock server is set up with one: the number of the first request it
\* answers with a success status and a decodable body (0: none).  timer is
\* the duration of the sleep in progress, slept the time slept so far (ms)
IdleCall ==
    [pc |-> "idle", op |-> "-", text |-> "None", image |-> "None", req |-> NoReq,
     retries |-> 0, delay |-> 0, attempt |-> 0, limit |-> 0, last_err |-> NoErr,
     sends |-> 0, delays |-> 0, timer |-> 0, slept |-> 0, first_ok |-> 0,
     resp |-> NoOutcome, result |-> NoResult]

Return(rec, result) == [rec EXCEPT !.pc = "done", !.result = result]

-----------------------------------------------------------------------------
(* Direct (single send) operations: what the code does with the outcome *)

\* send().await? ; status ; from_str(&text().await?)? ; status check,
\* error message "Request failed with status: {}"
DecodeThenStatus(schema, out) ==
    IF out.kind \in {"SendErr", "BodyErr"} THEN Err(TransportErr)
    ELSE LET parsed_body == FromStr(schema, out.body) IN
         IF ~parsed_body.ok THEN Err(SerdeErr)
         ELSE IF IsSuccess(out.status) THEN Ok(parsed_body.val)
         ELSE Err(StatusErr(out.status))

\* the same with "Request failed with status: {} and body: {}"
DecodeThenStatusBody(schema, out) ==
    IF out.kind \in {"SendErr", "BodyErr"} THEN Err(TransportErr)
    ELSE LET parsed_body == FromStr(schema, out.body) IN
         IF ~parsed_body.ok THEN Err(SerdeErr)
         ELSE IF IsSuccess(out.status) THEN Ok(parsed_body.val)
         ELSE Err(StatusBodyErr(out.status, out.body))

\* a variant of server_health without the status check
server_health_unchecked(out) ==
    IF out.kind \in {"SendErr", "BodyErr"} THEN Err(TransportErr)
    ELSE LET parsed_body == FromStr(GenericMessageResponse, out.body) IN
         IF ~parsed_body.ok THEN Err(SerdeErr) ELSE Ok(parsed_body.val)

server_health(out) == DecodeThenStatus(GenericMessageResponse, out)
loaded_models(out) == DecodeThenStatus(LoadedModelResponse, out)
repository_models(out) == DecodeThenStatus(RepositoryModelResponse, out)
metrics(out) == DecodeThenStatus(MetricsResponse, out)
load_model(out) == DecodeThenStatusBody(GenericMessageResponse, out)
unload_model(out) == DecodeThenStatusBody(GenericMessageResponse, out)
delete_model(out) == DecodeThenStatusBody(GenericMessageResponse, out)

DirectResult(op, out) ==
    CASE op \in {"model_server_health", "inference_server_health"} -> server_health(out)
      [] op = "loaded_models" -> loaded_models(out)
      [] op = "repository_models" -> repository_models(out)
      [] op = "metrics" -> metrics(out)
      [] op = "load_model" -> load_model(out)
      [] op = "unload_model" -> unload_model(out)
      [] op = "delete_model" -> delete_model(out)

-----------------------------------------------------------------------------
(* retry (src/src/retry.rs) *)

\* `retries + 1` on u16: the sum wraps when overflow checks are off
RangeEnd(retries) == (retries + 1) % (U16Max + 1)

\* `retries + 1` panics when overflow checks are on and the sum overflows
AddPanics(retries, checks) == checks /\ retries + 1 > U16Max

\* a variant that keeps the first reason instead of the last
RecordFirstFailure(rec, err) ==
    IF rec.last_err = NoErr THEN [rec EXCEPT !.last_err = err] ELSE rec

\* last_err = Some(...)
RecordFailure(rec, err) == [rec EXCEPT !.last_err = err]

\* Err(last_err.unwrap_or_else(|| "Unknown error".to_string()).into())
Exhausted(rec) ==
    Return(rec, Err(IF rec.last_err = NoErr THEN UnknownErr ELSE rec.last_err))

\* a variant in which a request that cannot be cloned counts as one more
\* failed attempt
LoopHeadCloneAbsorbed(rec) ==
    IF rec.attempt < rec.limit
    THEN IF rec.req.clonable
         THEN [rec EXCEPT !.pc = "retry_wait", !.sends = @ + 1, !.resp = NoOutcome]
         ELSE IF rec.attempt < rec.retries
              THEN [rec EXCEPT !.pc = "sleep", !.timer = rec.delay, !.last_err = CloneErr]
              ELSE Return(rec, Err(CloneErr))
    ELSE Exhausted(rec)

\* head of `for attempt in 0..retries + 1` with the loop index in rec.attempt:
\* leave the loop, or try_clone()? and send()
LoopHead(rec) ==
    IF rec.attempt < rec.limit
    THEN IF rec.req.clonable
         THEN [rec EXCEPT !.pc = "retry_wait", !.sends = @ + 1, !.resp = NoOutcome]
         ELSE Return(rec, Err(CloneErr))
    ELSE Exhausted(rec)

\* a variant that also sleeps after the last attempt
EndOfAttemptAlwaysSleeps(rec) ==
    IF rec.attempt <= rec.retries
    THEN [rec EXCEPT !.pc = "sleep", !.timer = rec.delay]
    ELSE LoopHead([rec EXCEPT !.attempt = @ + 1])

\* end of the loop body: `if attempt < retries { sleep(..).await }`
EndOfAttempt(rec) ==
    IF rec.attempt < rec.retries
    THEN [rec EXCEPT !.pc = "sleep", !.timer = rec.delay]
    ELSE LoopHead([rec EXCEPT !.attempt = @ + 1])

\* Err(e) of send(): last_err = Some("Network error: ..")
SendFailed(rec) == EndOfAttempt(RecordFailure(rec, NetworkErr))

\* `response.text().await?` with the read failing
BodyReadFailed(rec) == Return(rec, Err(TransportErr))

\* a variant in which a decode failure ends the call
ParseFailedFatal(rec, body) == Return(rec, Err(ParseErr(body)))

\* success status, Err(e) of from_str
ParseFailed(rec, body) == EndOfAttempt(RecordFailure(rec, ParseErr(body)))

\* a variant whose reason has the status only, like the direct operations'
\* "Request failed with status: {}"
StatusFailedNoBody(rec, status, body) ==
    EndOfAttempt(RecordFailure(rec, RetryStatusErr(status, NoBody)))

\* non-success status
StatusFailed(rec, status, body) ==
    EndOfAttempt(RecordFailure(rec, RetryStatusErr(status, body)))

\* a variant that lacks the `return` of the parsed value
ParsedNotReturned(rec, val) == EndOfAttempt(rec)

\* success status, Ok(parsed) of from_str
Parsed(rec, val) == Return(rec, Ok(val))

\* a variant that decodes the body whatever the status
HandleOutcomeAnyStatus(rec, schema, out) ==
    CASE out.kind = "SendErr" -> SendFailed(rec)
      [] out.kind = "BodyErr" -> BodyReadFailed(rec)
      [] out.kind = "Resp" ->
            LET parsed == FromStr(schema, out.body) IN
            IF parsed.ok THEN Parsed(rec, parsed.val)
            ELSE IF IsSuccess(out.status) THEN ParseFailed(rec, out.body)
            ELSE StatusFailed(rec, out.status, out.body)

\* the body of `match request.send().await` for the outcome of one attempt
HandleOutcome(rec, schema, out) ==
    CASE out.kind = "SendErr" -> SendFailed(rec)
      [] out.kind = "BodyErr" -> BodyReadFailed(rec)
      [] out.kind = "Resp" ->
            IF IsSuccess(out.status)
            THEN LET parsed == FromStr(schema, out.body) IN
                 IF parsed.ok THEN Parsed(rec, parsed.val) ELSE ParseFailed(rec, out.body)
            ELSE StatusFailed(rec, out.status, out.body)

\* entry of retry up to the first suspension
EnterRetry(rec, req, retries, delay, checks) ==
    IF AddPanics(retries, checks)
    THEN [rec EXCEPT !.pc = "panic", !.req = req, !.retries = retries, !.delay = delay]
    ELSE LoopHead([rec EXCEPT !.req = req, !.retries = retries, !.delay = delay,
                              !.attempt = 0, !.limit = RangeEnd(retries),
                              !.last_err = NoErr])

-----------------------------------------------------------------------------
(* The facade (src/src/lib.rs) *)

\* IngrainClient::new
new(model_server_url, inference_server_url) ==
    [model_server_url |-> model_server_url,
     inference_server_url |-> inference_server_url,
     retries |-> 0, retry_delay_ms |-> 0]

\* IngrainClient::new_with_retries
new_with_retries(model_server_url, inference_server_url, retries, retry_delay_ms) ==
    [model_server_url |-> model_server_url,
     inference_server_url |-> inference_server_url,
     retries |-> retries, retry_delay_ms |-> retry_delay_ms]

\* a variant in which every operation goes through retry
UsesRetryAlways(op) == TRUE

\* does the operation go through retry?
UsesRetry(op) == op \in RetriedOps

\* a variant that tests for empty lists instead of absent ones
EmbedShortCircuitOnEmpty(text, image) == text = "SomeEmpty" /\ image = "SomeEmpty"

\* embed: `text.is_none() && image.is_none()`
EmbedShortCircuit(text, image) == text = "None" /\ image = "None"

\* the EmbeddingResponse embed returns without a request
EmptyEmbedding ==
    {V("text_embeddings", "null", "null"), V("image_embeddings", "null", "null"),
     V("processing_time_ms", "number", "0")}

Init ==
    /\ client \in
         {new(m, i) : m \in ModelUrls, i \in InferenceUrls}
         \cup {new_with_retries(m, i, r, d) :
                 m \in ModelUrls, i \in InferenceUrls, r \in RetryValues, d \in DelayValues}
    /\ overflow_checks \in BOOLEAN
    /\ calls = [c \in Callers |-> IdleCall]
    /\ codec = NoCodec

\* a direct operation is called: it builds its request and sends it
CallDirect(c, op) ==
    /\ calls[c].pc = "idle"
    /\ ~UsesRetry(op)
    /\ calls' = [calls EXCEPT ![c] =
                   [IdleCall EXCEPT !.pc = "direct_wait", !.op = op,
                                    !.req = BuildRequest(client, op), !.sends = 1]]
    /\ UNCHANGED <<client, overflow_checks, codec>>

\* the outcome of a direct operation's request arrives
DirectResponse(c, out) ==
    /\ calls[c].pc = "direct_wait"
    /\ calls' = [calls EXCEPT ![c] =
                   Return([calls[c] EXCEPT !.resp = out], DirectResult(calls[c].op, out))]
    /\ UNCHANGED <<client, overflow_checks, codec>>

\* the endpoint answers the request of a call with `out`, following its script
Answers(rec, out) ==
    LET good == /\ out.kind = "Resp"
                /\ IsSuccess(out.status)
                /\ FromStr(ResponseType(rec.op), out.body).ok
    IN  good <=> rec.sends = rec.first_ok

\* a variant in which a call uses up one unit of the client's retry budget
CallRetriedConsuming(c, op, text, image, k) ==
    /\ calls[c].pc = "idle"
    /\ UsesRetry(op)
    /\ op = "embed" \/ (text = "None" /\ image = "None")
    /\ LET rec == [IdleCall EXCEPT !.op = op, !.text = text, !.image = image,
                                   !.first_ok = k] IN
       calls' = [calls EXCEPT ![c] =
                   IF op = "embed" /\ EmbedShortCircuit(text, image)
                   THEN Return(rec, Ok(EmptyEmbedding))
                   ELSE EnterRetry(rec, BuildRequest(client, op), client.retries,
                                   client.retry_delay_ms, overflow_checks)]
    /\ client' = [client EXCEPT !.retries = IF @ > 0 THEN @ - 1 ELSE 0]
    /\ UNCHANGED <<overflow_checks, codec>>

\* a retried operation is called (text and image are embed's arguments)
CallRetried(c, op, text, image, k) ==
    /\ calls[c].pc = "idle"
    /\ UsesRetry(op)
    /\ op = "embed" \/ (text = "None" /\ image = "None")
    /\ LET rec == [IdleCall EXCEPT !.op = op, !.text = text, !.image = image,
                                   !.first_ok = k] IN
       calls' = [calls EXCEPT ![c] =
                   IF op = "embed" /\ EmbedShortCircuit(text, image)
                   THEN Return(rec, Ok(EmptyEmbedding))
                   ELSE EnterRetry(rec, BuildRequest(client, op), client.retries,
                                   client.retry_delay_ms, overflow_checks)]
    /\ UNCHANGED <<client, overflow_checks, codec>>

\* retry is called with a request builder of its caller's choice, which
\* need not be clonable (a streaming body)
CallRetry(c, clonable, retries, delay, k) ==
    /\ calls[c].pc = "idle"
    /\ LET rec == [IdleCall EXCEPT !.op = "retry", !.first_ok = k]
           req == [Req("POST", "-", "-", "stream") EXCEPT !.clonable = clonable] IN
       calls' = [calls EXCEPT ![c] = EnterRetry(rec, req, retries, delay, overflow_checks)]
    /\ UNCHANGED <<client, overflow_checks, codec>>

\* a variant in which a sleeping call holds up every other call (a sleep
\* that blocks the thread instead of suspending the task)
RetryResponseBlocked(c, out) ==
    /\ calls[c].pc = "retry_wait"
    /\ \A d \in Callers \ {c} : calls[d].pc # "sleep"
    /\ Answers(calls[c], out)
    /\ calls' = [calls EXCEPT ![c] =
                   HandleOutcome([calls[c] EXCEPT !.resp = out],
                                 ResponseType(calls[c].op), out)]
    /\ UNCHANGED <<client, overflow_checks, codec>>

\* the outcome of one attempt's request arrives
RetryResponse(c, out) ==
    /\ calls[c].pc = "retry_wait"
    /\ Answers(calls[c], out)
    /\ calls' = [calls EXCEPT ![c] =
                   HandleOutcome([calls[c] EXCEPT !.resp = out],
                                 ResponseType(calls[c].op), out)]
    /\ UNCHANGED <<client, overflow_checks, codec>>

\* sleep(Duration::from_millis(retry_delay_ms)) is over
WakeUp(c) ==
    /\ calls[c].pc = "sleep"
    /\ calls' = [calls EXCEPT ![c] =
                   LoopHead([calls[c] EXCEPT !.delays = @ + 1, !.slept = @ + calls[c].timer,
                                             !.timer = 0, !.attempt = @ + 1])]
    /\ UNCHANGED <<client, overflow_checks, codec>>

\* the caller takes the result; the task can make its next call
Finish(c) ==
    /\ calls[c].pc = "done"
    /\ calls' = [calls EXCEPT ![c] = IdleCall]
    /\ UNCHANGED <<client, overflow_checks, codec>>

Step(c) ==
    \/ \E op \in Ops : CallDirect(c, op)
    \/ \E out \in Outcomes : DirectResponse(c, out)
    \/ \E op \in Ops, text \in OptVals, image \in OptVals, k \in Scripts :
            CallRetried(c, op, text, image, k)
    \/ \E clonable \in BOOLEAN, r \in RetryValues, d \in DelayValues, k \in Scripts :
            CallRetry(c, clonable, r, d, k)
    \/ \E out \in Outcomes : RetryResponse(c, out)
    \/ WakeUp(c)
    \/ Finish(c)

Next == \E c \in SoloCallers : Step(c)

Spec == Init /\ [][Next]_vars

\* The same program when every send and body read completes and every
\* timer fires: an awaited request or sleep does not stay pending for ever.
\* Whether a task makes a call, or takes its result, is up to the task.
Completes ==
    \A c \in SoloCallers :
        /\ WF_vars(\E out \in Outcomes : RetryResponse(c, out))
        /\ WF_vars(\E out \in Outcomes : DirectResponse(c, out))
        /\ WF_vars(WakeUp(c))

SpecLive == Init /\ [][Next]_vars /\ Completes

\* Two tasks share one client (`&self`) and call concurrently: every await
\* point of one call is a place where the other may take steps.
ConcRetryValues == {0, 1}
ConcScripts == {0, 1, 2}
ConcOps == {"embed_text", "model_embedding_size"}
ConcOutcomes ==
    {[kind |-> "SendErr", status |-> NoStatus, body |-> NoBody],
     [kind |-> "BodyErr", status |-> 200, body |-> NoBody],
     [kind |-> "Resp", status |-> 200, body |-> BodyEmbeddings],
     [kind |-> "Resp", status |-> 200, body |-> BodyDims],
     [kind |-> "Resp", status |-> 500, body |-> BodyText]}

InitConc ==
    /\ client \in {new_with_retries(m, i, r, d) :
                      m \in ModelUrls, i \in InferenceUrls,
                      r \in ConcRetryValues, d \in DelayValues}
    /\ overflow_checks \in BOOLEAN
    /\ calls = [c \in Callers |-> IdleCall]
    /\ codec = NoCodec

ConcStep(c) ==
    \/ \E op \in ConcOps, k \in ConcScripts : CallRetried(c, op, "None", "None", k)
    \/ \E out \in ConcOutcomes : RetryResponse(c, out)
    \/ WakeUp(c)
    \/ Finish(c)

NextConc == \E c \in Callers : ConcStep(c)

SpecConc == InitConc /\ [][NextConc]_vars

\* The codec on its own: a value of a record type or a variant of
\* ModelLibrary to encode, or an inbound wire form to decode
InitCodec ==
    /\ client \in {new(m, i) : m \in ModelUrls, i \in InferenceUrls}
    /\ overflow_checks = FALSE
    /\ calls = [c \in Callers |-> IdleCall]
    /\ codec \in
         UNION {{[NoCodec EXCEPT !.pc = "value", !.from = "value", !.ty = ty, !.value = x] :
                    x \in Values(Schema(ty))} : ty \in Records}
         \cup UNION {{[NoCodec EXCEPT !.pc = "wire", !.from = "payload", !.ty = ty,
                                      !.wire = w] :
                    w \in Payloads(Schema(ty))} : ty \in ResponseRecords}
         \cup {[NoCodec EXCEPT !.pc = "value", !.from = "value", !.ty = "ModelLibrary",
                               !.variant = v] : v \in ModelLibrary}
         \cup {[NoCodec EXCEPT !.pc = "wire", !.from = "payload", !.ty = "ModelLibrary",
                               !.token = t] : t \in InboundTokens}

\* serde_json::to_string(&value) for a record
Encode ==
    /\ codec.pc = "value" /\ codec.ty \in Records
    /\ codec' = [codec EXCEPT !.pc = "wire",
                              !.wire = Serialize(Schema(codec.ty), codec.value)]
    /\ UNCHANGED <<client, overflow_checks, calls>>

\* serde_json::from_str::<T>(..) of a record's wire form
Decode ==
    /\ codec.pc = "wire" /\ codec.ty \in Records
    /\ codec' = [codec EXCEPT !.pc = "back",
                              !.back = Deserialize(Schema(codec.ty), codec.wire)]
    /\ UNCHANGED <<client, overflow_checks, calls>>

\* serde_json::to_string(&library)
EncodeLibrary ==
    /\ codec.pc = "value" /\ codec.ty = "ModelLibrary"
    /\ codec' = [codec EXCEPT !.pc = "wire", !.token = RenameSnakeCase(codec.variant)]
    /\ UNCHANGED <<client, overflow_checks, calls>>

\* serde_json::from_str::<ModelLibrary>(..)
DecodeLibrary ==
    /\ codec.pc = "wire" /\ codec.ty = "ModelLibrary"
    /\ codec' = [codec EXCEPT !.pc = "back",
                              !.variant_back = DeserializeVariant(codec.token)]
    /\ UNCHANGED <<client, overflow_checks, calls>>

NextCodec == Encode \/ Decode \/ EncodeLibrary \/ DecodeLibrary

SpecCodec == InitCodec /\ [][NextCodec]_vars

-----------------------------------------------------------------------------
(* Vocabulary of the properties *)

\* embed called without text and without image
EmbedOfNothing(c) ==
    calls[c].op = "embed" /\ calls[c].text = "None" /\ calls[c].image = "None"

\* the calls that run retry
ThroughRetry(c) == calls[c].op \in RetriedOps \cup {"retry"} /\ ~EmbedOfNothing(c)

\* the last outcome a call received decodes under a success status
GotSuccess(c) ==
    /\ calls[c].resp.kind = "Resp"
    /\ IsSuccess(calls[c].resp.status)
    /\ FromStr(ResponseType(calls[c].op), calls[c].resp.body).ok

\* the last outcome a call received is a response that is not a success:
\* a non-2xx status, or a 2xx status with an undecodable body
GotBadResponse(c) ==
    /\ calls[c].resp.kind = "Resp"
    /\ ~GotSuccess(c)

ReturnedErr(c) == calls[c].pc = "done" /\ calls[c].result.tag = "Err"
ReturnedOk(c) == calls[c].pc = "done" /\ calls[c].result.tag = "Ok"

-----------------------------------------------------------------------------
\* C1: for every retry count n >= 0, a retried operation against an endpoint
\* that fails on every attempt performs exactly n+1 sends and then returns
\* Err: such a call never panics, and when it returns it returns Err after
\* exactly n+1 sends.
C1_ExactlyNPlusOneSends ==
    \A c \in Callers :
        (ThroughRetry(c) /\ calls[c].req.clonable /\ calls[c].first_ok = 0) =>
            /\ calls[c].pc # "panic"
            /\ calls[c].sends <= calls[c].retries + 1
            /\ calls[c].pc = "done" =>
                 (calls[c].result.tag = "Err" /\ calls[c].sends = calls[c].retries + 1)

\* C2: if the endpoint fails attempts 1..k-1 in any way and answers attempt
\* k <= maxRetries+1 with a 2xx status and a decodable body, retry returns Ok
\* with the value decoded from attempt k's body after exactly k sends.
C2_SuccessAtAttemptK ==
    \A c \in Callers :
        (/\ ThroughRetry(c) /\ calls[c].req.clonable
         /\ calls[c].pc \in {"done", "panic"}
         /\ calls[c].first_ok >= 1
         /\ calls[c].first_ok <= calls[c].retries + 1) =>
            /\ calls[c].sends = calls[c].first_ok
            /\ GotSuccess(c)
            /\ calls[c].pc = "done"
            /\ calls[c].result =
                 [tag |-> "Ok",
                  val |-> FromStr(ResponseType(calls[c].op), calls[c].resp.body).val,
                  err |-> NoErr]

\* C3: in retry a 2xx response with an undecodable body is handled like a
\* non-2xx response: it records a failure reason and uses up one attempt;
\* the call then waits for its next attempt, or, if that was the last
\* attempt of the budget, returns the recorded reason.
C3_DecodeFailureLikeStatusFailure ==
    \A c \in Callers :
        (ThroughRetry(c) /\ GotBadResponse(c)) =>
            /\ calls[c].last_err.kind \in {"Parse", "RetryStatus"}
            /\ calls[c].last_err.kind = "Parse" <=> IsSuccess(calls[c].resp.status)
            /\ calls[c].last_err.body = calls[c].resp.body
            /\ calls[c].sends = calls[c].attempt + 1
                 \/ (calls[c].pc = "done" /\ calls[c].sends = calls[c].attempt)
            /\ IF calls[c].sends < calls[c].retries + 1
               THEN calls[c].pc = "sleep"
               ELSE /\ calls[c].pc = "done"
                    /\ calls[c].sends = calls[c].retries + 1
                    /\ calls[c].result =
                         [tag |-> "Err", val |-> NoValue, err |-> calls[c].last_err]

\* C3 witness: an undecodable 2xx body was received and the call waits for
\* its next attempt
C3_Witness ==
    \E c \in Callers :
        /\ ThroughRetry(c) /\ GotBadResponse(c)
        /\ IsSuccess(calls[c].resp.status)
        /\ calls[c].pc = "sleep"

\* C4: embed with text = None and image = None returns Ok with no text
\* embeddings, no image embeddings and processing_time_ms = 0, and sends
\* nothing, whatever the retry policy.
C4_EmbedNoneNone ==
    \A c \in Callers :
        (calls[c].op = "embed" /\ calls[c].text = "None" /\ calls[c].image = "None") =>
            /\ calls[c].pc = "done"
            /\ calls[c].sends = 0
            /\ calls[c].delays = 0
            /\ calls[c].result.tag = "Ok"
            /\ calls[c].result.val =
                 {[field |-> "text_embeddings", ty |-> "null", v |-> "null"],
                  [field |-> "image_embeddings", ty |-> "null", v |-> "null"],
                  [field |-> "processing_time_ms", ty |-> "number", v |-> "0"]}

\* C4 witness: embed(None, None) has returned on a client with retries
C4_Witness ==
    \E c \in Callers :
        /\ calls[c].op = "embed" /\ calls[c].text = "None" /\ calls[c].image = "None"
        /\ calls[c].pc = "done"
        /\ client.retries > 0

\* C5: load_model, unload_model and delete_model, answered with a non-2xx
\* status and any body, return Err whose message contains the status code
\* and the literal body text.
C5_LifecycleErrHasStatusAndBody ==
    \A c \in Callers :
        (/\ calls[c].op \in {"load_model", "unload_model", "delete_model"}
         /\ calls[c].pc = "done"
         /\ calls[c].resp.kind = "Resp"
         /\ ~IsSuccess(calls[c].resp.status)) =>
            /\ calls[c].result.tag = "Err"
            /\ calls[c].result.err.status = calls[c].resp.status
            /\ calls[c].result.err.body = calls[c].resp.body

\* C6: every operation that is not retried (the health checks, loaded_models,
\* repository_models, metrics and the lifecycle calls), answered with a
\* non-success status, returns Err that includes the status code and the
\* raw body.
C6_DirectErrHasStatusAndBody ==
    \A c \in Callers :
        (/\ calls[c].op \in DirectOps
         /\ calls[c].pc = "done"
         /\ calls[c].resp.kind = "Resp"
         /\ ~IsSuccess(calls[c].resp.status)) =>
            /\ calls[c].result.tag = "Err"
            /\ calls[c].result.err.status = calls[c].resp.status
            /\ calls[c].result.err.body = calls[c].resp.body

HealthOps == {"model_server_health", "inference_server_health"}

\* C7: a health check answered 200 with a body carrying a message field
\* returns Ok whose message is that field; a health check answered 500
\* returns Err whatever the body.
C7_HealthCheck ==
    \A c \in Callers :
        (calls[c].op \in HealthOps /\ calls[c].pc = "done" /\ calls[c].resp.kind = "Resp") =>
            /\ calls[c].resp.status = 200 =>
                 \A m \in ParseJson(calls[c].resp.body).fields :
                     (m.name = "message" /\ m.ty = "string") =>
                         /\ calls[c].result.tag = "Ok"
                         /\ calls[c].result.val =
                              {[field |-> "message", ty |-> "string", v |-> m.v]}
            /\ calls[c].resp.status = 500 => calls[c].result.tag = "Err"

\* C7 witness: a health check answered 500 with a decodable message body
C7_Witness ==
    \E c \in Callers :
        /\ calls[c].op \in HealthOps /\ calls[c].pc = "done"
        /\ calls[c].resp.kind = "Resp" /\ calls[c].resp.status = 500
        /\ ParseJson(calls[c].resp.body).wf
        /\ \E m \in ParseJson(calls[c].resp.body).fields : m.name = "message"

\* C8: an administrative operation sends at most once per call and never
\* sleeps, whatever its outcome and whatever retries the client has; a call
\* with more than one send is one of the six retried operations.
C8_DirectOpsSendOnce ==
    \A c \in Callers :
        /\ calls[c].op \in DirectOps => (calls[c].sends <= 1 /\ calls[c].delays = 0)
        /\ (calls[c].sends > 1 /\ calls[c].op \in Ops) =>
              calls[c].op \in {"embed_text", "embed_image", "embed", "classify_image",
                               "model_classification_labels", "model_embedding_size"}

\* C8 witness: an administrative call failed on a client with retries
C8_Witness ==
    \E c \in Callers :
        /\ calls[c].op \in DirectOps /\ ReturnedErr(c)
        /\ calls[c].sends = 1 /\ client.retries = MaxRetries /\ MaxRetries > 0

\* the failure reason of an attempt with the outcome `out`
ReasonOf(out) ==
    CASE out.kind = "SendErr" -> [kind |-> "Network", status |-> NoStatus, body |-> NoBody]
      [] out.kind = "BodyErr" ->
            [kind |-> "Transport", status |-> NoStatus, body |-> NoBody]
      [] out.kind = "Resp" /\ IsSuccess(out.status) ->
            [kind |-> "Parse", status |-> NoStatus, body |-> out.body]
      [] OTHER -> [kind |-> "RetryStatus", status |-> out.status, body |-> out.body]

\* C9: when retry has made all maxRetries+1 attempts and none decoded, the
\* Err it returns carries the reason of the last attempt.
C9_LastFailureWins ==
    \A c \in Callers :
        (/\ ThroughRetry(c) /\ ReturnedErr(c)
         /\ calls[c].sends = calls[c].retries + 1) =>
            calls[c].result.err = ReasonOf(calls[c].resp)

\* C9 witness: three attempts failed, the last with a non-2xx status
C9_Witness ==
    \E c \in Callers :
        /\ ThroughRetry(c) /\ ReturnedErr(c)
        /\ calls[c].sends = 3 /\ calls[c].retries = 2
        /\ calls[c].resp.kind = "Resp" /\ ~IsSuccess(calls[c].resp.status)

\* C10: in retry every failure of an attempt (the send fails, the body read
\* fails, a non-2xx status, an undecodable body) is absorbed: if the attempt
\* was not the last one, another attempt follows; retry returns Err with
\* fewer sends than its loop has iterations only when the request cannot be
\* cloned.
C10_FailuresAbsorbed ==
    \A c \in Callers :
        ThroughRetry(c) =>
            /\ (/\ calls[c].resp.kind \in {"SendErr", "BodyErr", "Resp"}
                /\ ~GotSuccess(c)
                /\ calls[c].attempt < calls[c].retries) => calls[c].pc = "sleep"
            /\ (ReturnedErr(c) /\ calls[c].sends < calls[c].limit) =>
                 ~calls[c].req.clonable

\* C11: when the request cannot be cloned at the start of an attempt, retry
\* returns the "Failed to clone request" error at once: nothing is sent, no
\* delay is taken and no further attempt is made, whatever the budget.
C11_CloneFailureIsFatal ==
    \A c \in Callers :
        (ThroughRetry(c) /\ ~calls[c].req.clonable) =>
            /\ calls[c].sends = 0
            /\ calls[c].delays = 0
            /\ calls[c].pc \in {"done", "panic"}
            /\ (calls[c].pc = "done" /\ calls[c].attempt < calls[c].limit) =>
                  /\ calls[c].result =
                       [tag |-> "Err", val |-> NoValue,
                        err |-> [kind |-> "Clone", status |-> NoStatus, body |-> NoBody]]
                  /\ calls[c].attempt = 0

\* C11 witness: retry returned the clone error with two retries left
C11_Witness ==
    \E c \in Callers :
        /\ ThroughRetry(c) /\ ~calls[c].req.clonable
        /\ ReturnedErr(c) /\ calls[c].result.err.kind = "Clone"
        /\ calls[c].retries = 2

\* C12: retry sleeps for retry_delay_ms exactly once between two consecutive
\* attempts and at no other time: the sleeps taken are the sends made less
\* one (none when nothing was sent), a sleep is in progress only with
\* attempts left, and with maxRetries = 0 a call whose request can be cloned
\* returns after one send and no sleep.
C12_DelayBetweenAttempts ==
    \A c \in Callers :
        ThroughRetry(c) =>
            /\ calls[c].delays = (IF calls[c].sends = 0 THEN 0 ELSE calls[c].sends - 1)
            /\ calls[c].slept = calls[c].delays * calls[c].delay
            /\ calls[c].pc = "sleep" =>
                  /\ calls[c].sends < calls[c].retries + 1
                  /\ calls[c].timer = calls[c].delay
            /\ calls[c].op \in RetriedOps => calls[c].delay = client.retry_delay_ms
            /\ (calls[c].retries = 0 /\ calls[c].pc = "done" /\ calls[c].req.clonable) =>
                  (calls[c].sends = 1 /\ calls[c].delays = 0)

\* C12 witness: three sends failed and two sleeps of 10 ms were taken
C12_Witness ==
    \E c \in Callers :
        /\ ThroughRetry(c) /\ ReturnedErr(c)
        /\ calls[c].sends = 3 /\ calls[c].delays = 2 /\ calls[c].slept = 20

\* C13: retry returns Ok(v) only if the attempt it returns from received a
\* 2xx status and a body that decodes to v; a non-2xx response never gives
\* Ok, even with a body that would decode.
C13_SoleSuccessExit ==
    \A c \in Callers :
        (ThroughRetry(c) /\ calls[c].result.tag = "Ok") =>
            /\ calls[c].resp.kind = "Resp"
            /\ calls[c].resp.status >= 200 /\ calls[c].resp.status <= 299
            /\ FromStr(ResponseType(calls[c].op), calls[c].resp.body).ok
            /\ calls[c].result.val =
                 FromStr(ResponseType(calls[c].op), calls[c].resp.body).val

\* C13 witness: retry returned Ok from its second attempt
C13_Witness ==
    \E c \in Callers :
        ThroughRetry(c) /\ ReturnedOk(c) /\ calls[c].sends = 2

\* the body is no JSON object, or lacks a required member of the record
\* type, or has it with another type
LacksRequired(schema, body) ==
    \/ ~ParseJson(body).wf
    \/ \E s \in schema :
          /\ s.req
          /\ ~\E m \in ParseJson(body).fields : m.name = s.wire /\ m.ty = s.ty

\* C14: for every facade operation, a response with a success status whose
\* body does not decode gives no Ok result: no default value stands in for
\* the body.
C14_NoDefaultForBadBody ==
    \A c \in Callers :
        (/\ calls[c].op \in Ops
         /\ calls[c].resp.kind = "Resp"
         /\ IsSuccess(calls[c].resp.status)
         /\ LacksRequired(ResponseType(calls[c].op), calls[c].resp.body)) =>
            /\ calls[c].result.tag # "Ok"
            /\ calls[c].pc = "done" => calls[c].result.tag = "Err"

\* C14 witness: a direct operation got 200 with an undecodable body
C14_Witness ==
    \E c \in Callers :
        /\ calls[c].op \in DirectOps /\ calls[c].pc = "done"
        /\ calls[c].resp.kind = "Resp" /\ calls[c].resp.status = 200
        /\ LacksRequired(ResponseType(calls[c].op), calls[c].resp.body)

\* C20: total attempts = maxRetries + 1 over the whole range of the u16
\* retries: the loop bound is the successor of retries and no call panics,
\* so retries = 65535 gives 65536 attempts.
C20_AttemptsOverU16Range ==
    \A c \in Callers :
        (ThroughRetry(c) /\ calls[c].pc # "idle") =>
            /\ calls[c].pc # "panic"
            /\ calls[c].limit = calls[c].retries + 1

\* C18: no facade operation changes the model-server address, the
\* inference-server address, retries or retry_delay_ms of the client: they
\* stay what the constructor set, and every call in progress works with
\* these values.
C18_ClientFieldsFrozen ==
    /\ [][client' = client]_vars
    /\ [](\A c \in Callers :
            (calls[c].op \in Ops /\ ~EmbedOfNothing(c)) =>
                /\ calls[c].req.base \in {client.model_server_url, client.inference_server_url}
                /\ calls[c].op \in RetriedOps =>
                      /\ calls[c].retries = client.retries
                      /\ calls[c].delay = client.retry_delay_ms)

\* C18 witness: a retried call used up the whole budget of a client built
\* with retries = 2 and 10 ms, and the client still holds these values
C18_Witness ==
    \E c \in Callers :
        /\ calls[c].op \in RetriedOps /\ ReturnedErr(c) /\ calls[c].sends = 3
        /\ client.retries = 2 /\ client.retry_delay_ms = 10

\* a call waits at an await point
Suspended(c) == calls[c].pc \in {"retry_wait", "sleep"}

\* C19: with two concurrent calls on one client, while one is suspended the
\* other can take its next step, whatever that is, up to its return; a step
\* of one call leaves the other call as it was; the attempts a call makes
\* and its result follow from its own endpoint's answers.
C19_CallsIndependent ==
    /\ [](\A c \in Callers, d \in Callers :
            (c # d /\ Suspended(d)) => ENABLED ConcStep(c))
    /\ [][\A c \in Callers, d \in Callers :
            (c # d /\ calls'[c] # calls[c]) => calls'[d] = calls[d]]_vars
    /\ [](\A c \in Callers :
            (ThroughRetry(c) /\ calls[c].pc = "done") =>
                /\ ReturnedOk(c) => calls[c].sends = calls[c].first_ok
                /\ ReturnedErr(c) => calls[c].result.err = ReasonOf(calls[c].resp)
                /\ (ReturnedErr(c) /\ calls[c].resp.kind # "BodyErr") =>
                      /\ calls[c].sends = calls[c].retries + 1
                      /\ calls[c].first_ok \notin 1..calls[c].sends)

\* C19 witness: one call sleeps between its attempts while the other call,
\* started on the same client, has returned Ok
C19_Witness ==
    \E c \in Callers, d \in Callers :
        /\ c # d
        /\ calls[d].pc = "sleep"
        /\ ThroughRetry(c) /\ ReturnedOk(c) /\ calls[c].sends = 2

\* the codec has encoded a value of a record type and decoded the wire form
RoundTripDone ==
    codec.pc = "back" /\ codec.from = "value" /\ codec.ty \in Records

\* C15: for every request and response record type, decoding the wire form
\* of a value gives a value equal field for field to the original, records
\* with absent optional fields included.
C15_RoundTrip ==
    RoundTripDone => (codec.back.ok /\ codec.back.val = codec.value)

\* the codec has decoded an inbound JSON object into a response record
PayloadDecoded ==
    codec.pc = "back" /\ codec.from = "payload" /\ codec.ty \in ResponseRecords

\* every required field of the record has a member of its type under its
\* wire name
RequiredPresent(schema, obj) ==
    \A s \in schema :
        s.req => \E m \in obj.fields : m.name = s.wire /\ m.ty = s.ty

\* every optional field that has a member has it null or of its type
OptionalFit(schema, obj) ==
    \A s \in schema :
        ~s.req => \A m \in obj.fields : m.name = s.wire => m.ty \in {s.ty, "null"}

\* the object without the members the record does not have
KnownMembers(schema, obj) ==
    [obj EXCEPT !.fields = {m \in @ : \E s \in schema : s.wire = m.name}]

\* C16 as stated: decoding an inbound payload into a response record
\* succeeds if and only if every required field is present under its wire
\* name with the right type.
C16_DecodeIffRequired ==
    PayloadDecoded =>
        (codec.back.ok <=> RequiredPresent(Schema(codec.ty), codec.wire))

\* C16 amended: decoding an inbound JSON object into a response record
\* succeeds if and only if every required field is present under its wire
\* name with the right type and every optional field that is present is
\* null or has the right type; members the record does not have change
\* nothing, and a required field's value is the member's, never a default.
C16_DecodeIffFieldsFit ==
    PayloadDecoded =>
        LET schema == Schema(codec.ty) IN
        /\ codec.back.ok <=>
              (RequiredPresent(schema, codec.wire) /\ OptionalFit(schema, codec.wire))
        /\ codec.back = Deserialize(schema, KnownMembers(schema, codec.wire))
        /\ codec.back.ok =>
              \A s \in schema :
                  s.req => \E m \in codec.wire.fields :
                              /\ m.name = s.wire
                              /\ [field |-> s.field, ty |-> m.ty, v |-> m.v] \in codec.back.val

\* C16 witness: an EmbeddingResponse decoded from an object with an unknown
\* member and without textEmbeddings
C16_Witness ==
    /\ PayloadDecoded /\ codec.ty = "EmbeddingResponse" /\ codec.back.ok
    /\ \E m \in codec.wire.fields : m.name = "extra"
    /\ ~\E m \in codec.wire.fields : m.name = "textEmbeddings"

\* C17: ModelLibrary has exactly three variants; their wire names are
\* open_clip, sentence_transformers and timm, pairwise distinct; each wire
\* name decodes back to its own variant.
C17_ModelLibraryTokens ==
    /\ Cardinality(ModelLibrary) = 3
    /\ RenameSnakeCase(OpenClip) = <<"o", "p", "e", "n", "_", "c", "l", "i", "p">>
    /\ RenameSnakeCase(SentenceTransformers) =
         <<"s", "e", "n", "t", "e", "n", "c", "e", "_",
           "t", "r", "a", "n", "s", "f", "o", "r", "m", "e", "r", "s">>
    /\ RenameSnakeCase(Timm) = <<"t", "i", "m", "m">>
    /\ \A v \in ModelLibrary, w \in ModelLibrary :
          v # w => RenameSnakeCase(v) # RenameSnakeCase(w)
    /\ (codec.ty = "ModelLibrary" /\ codec.from = "value" /\ codec.pc = "back") =>
          (codec.variant_back.ok /\ codec.variant_back.variant = codec.variant)
    /\ (codec.ty = "ModelLibrary" /\ codec.pc = "back" /\ codec.variant_back.ok) =>
          codec.token \in
            {<<"o", "p", "e", "n", "_", "c", "l", "i", "p">>,
             <<"s", "e", "n", "t", "e", "n", "c", "e", "_",
               "t", "r", "a", "n", "s", "f", "o", "r", "m", "e", "r", "s">>,
             <<"t", "i", "m", "m">>}

\* C17 witness: SentenceTransformers was encoded and decoded back
C17_Witness ==
    /\ codec.ty = "ModelLibrary" /\ codec.from = "value" /\ codec.pc = "back"
    /\ codec.variant = SentenceTransformers
    /\ codec.variant_back.ok

\* C21: every invocation of retry eventually returns Ok or Err, when every
\* send and body read completes; in every reachable state the sends made
\* so far are at most maxRetries + 1.
C21_RetryReturns ==
    /\ \A c \in SoloCallers :
          (ThroughRetry(c) /\ calls[c].pc # "idle") ~> (calls[c].pc = "done")
    /\ [](\A c \in Callers :
            ThroughRetry(c) => calls[c].sends <= calls[c].retries + 1)

\* the server a request goes to
ServerOf(req) ==
    IF req.base = client.model_server_url THEN "model"
    ELSE IF req.base = client.inference_server_url THEN "inference"
    ELSE "other"

\* C22: every facade operation sends to the base address of its own server,
\* with its fixed path and method: the model server for the model-server
\* health check, the listings, load/unload/delete and the two metadata
\* lookups, the inference server for its health check, metrics, the
\* embeddings and the classification; GET for health, listings, metrics and
\* the lookups (name as query parameter), POST with a JSON body otherwise.
C22_AddressPathMethod ==
    \A c \in Callers :
        (calls[c].op \in Ops /\ ~EmbedOfNothing(c)) =>
            /\ <<calls[c].op, calls[c].req.method, ServerOf(calls[c].req), calls[c].req.path>> \in
                 {<<"model_server_health", "GET", "model", "/health">>,
                  <<"loaded_models", "GET", "model", "/loaded_models">>,
                  <<"repository_models", "GET", "model", "/repository_models">>,
                  <<"load_model", "POST", "model", "/load_model">>,
                  <<"unload_model", "POST", "model", "/unload_model">>,
                  <<"delete_model", "POST", "model", "/delete_model">>,
                  <<"model_classification_labels", "GET", "model",
                    "/model_classification_labels">>,
                  <<"model_embedding_size", "GET", "model", "/model_embedding_size">>,
                  <<"inference_server_health", "GET", "inference", "/health">>,
                  <<"metrics", "GET", "inference", "/metrics">>,
                  <<"embed_text", "POST", "inference", "/embed_text">>,
                  <<"embed_image", "POST", "inference", "/embed_image">>,
                  <<"embed", "POST", "inference", "/embed">>,
                  <<"classify_image", "POST", "inference", "/classify_image">>}
            /\ calls[c].req.carrier =
                 (IF calls[c].op \in {"model_classification_labels", "model_embedding_size"}
                  THEN "query"
                  ELSE IF calls[c].req.method = "POST" THEN "json" ELSE "none")

\* C22 witness: model_embedding_size has sent its GET with a query to the
\* model server, on a client whose two servers differ
C22_Witness ==
    \E c \in Callers :
        /\ calls[c].op = "model_embedding_size" /\ calls[c].pc = "retry_wait"
        /\ calls[c].sends = 1
        /\ calls[c].req.method = "GET" /\ calls[c].req.carrier = "query"
        /\ calls[c].req.base = client.model_server_url
        /\ client.model_server_url # client.inference_server_url

\* C23: the reason retry records for an attempt is that attempt's: after a
\* non-2xx response it holds the response's status and raw body, after a
\* 2xx response that does not decode it holds the response's raw body; the
\* error returned once the attempts are used up is the reason of the last
\* attempt's response.
C23_ReasonIsOfItsAttempt ==
    \A c \in Callers :
        (/\ ThroughRetry(c)
         /\ calls[c].resp.kind = "Resp"
         /\ calls[c].pc = "sleep" \/ ReturnedErr(c)) =>
            /\ (calls[c].resp.status < 200 \/ calls[c].resp.status > 299) =>
                  /\ calls[c].last_err.kind = "RetryStatus"
                  /\ calls[c].last_err.status = calls[c].resp.status
                  /\ calls[c].last_err.body = calls[c].resp.body
            /\ (calls[c].resp.status >= 200 /\ calls[c].resp.status <= 299) =>
                  /\ calls[c].last_err.kind = "Parse"
                  /\ calls[c].last_err.body = calls[c].resp.body
            /\ ReturnedErr(c) => calls[c].result.err = calls[c].last_err

\* C23 witness: the second and last attempt got 404 with a body, and the
\* error returned has 404 and that body
C23_Witness ==
    \E c \in Callers :
        /\ ThroughRetry(c) /\ ReturnedErr(c)
        /\ calls[c].retries = 1 /\ calls[c].sends = 2
        /\ calls[c].resp.kind = "Resp" /\ calls[c].resp.status = 404
        /\ calls[c].resp.body = BodyMsgErr
        /\ calls[c].result.err.status = 404 /\ calls[c].result.err.body = BodyMsgErr

\* C24: when retry returns Err because the loop ended without a success,
\* some attempt has recorded a reason: the error is never the fallback
\* "Unknown error", whatever retries is and whatever the endpoint answers.
C24_NeverUnknownError ==
    \A c \in Callers :
        (ThroughRetry(c) /\ ReturnedErr(c)) =>
            /\ calls[c].result.err.kind # "Unknown"
            /\ calls[c].result.err.kind \in {"Network", "Parse", "RetryStatus"} =>
                  calls[c].sends >= 1

\* C25: embed answers locally only when text and image are both None: with
\* either of them Some, a Some of an empty list included, embed makes at
\* least one send to /embed through retry, and its result is retry's.
C25_EmbedSendsUnlessBothNone ==
    \A c \in Callers :
        (/\ calls[c].op = "embed"
         /\ calls[c].pc # "idle"
         /\ calls[c].text # "None" \/ calls[c].image # "None") =>
            /\ calls[c].sends >= 1
            /\ calls[c].req.path = "/embed" /\ calls[c].req.method = "POST"
            /\ calls[c].pc # "panic"
            /\ ReturnedOk(c) =>
                  /\ GotSuccess(c)
                  /\ calls[c].result.val =
                       FromStr(EmbeddingResponse, calls[c].resp.body).val
            /\ ReturnedErr(c) =>
                  calls[c].result.err.kind \in {"Transport", "Network", "Parse", "RetryStatus"}

=============================================================================
